---------------------------- MODULE Spec2Model ----------------------------
(***************************************************************************)
(* The data-policy request executor of src/src/core/request.js            *)
(* (class PrivateRequest and its facade Request).                          *)
(*                                                                         *)
(* One caller-owned descriptor (slot Top) and the descriptors its          *)
(* execute() derives (slot k+1 holds the descriptor derived by the call    *)
(* running on slot k).  The Cache Layer, the Network Layer and the auth    *)
(* resolver are external: their results are inputs, chosen when they       *)
(* settle.  Every promise reaction of the source that can be separated     *)
(* from the others by a suspension is one action.                          *)
(***************************************************************************)
EXTENDS Naturals, Sequences, FiniteSets, TLC

VARIABLES
  req,       \* slot -> descriptor (fields of PrivateRequest + its pending call)
  nExec,     \* execute() calls of the caller that passed the entry guard
  returned,  \* what each execute() call refused by the entry guard returned
  peer,      \* the slots of a second descriptor the caller owns
  out,       \* what the last accessor or function call returned or threw
  lastSet,   \* header name -> the value last set for it (history)
  pubnub,    \* live.ts: the module variable `pubnub` (an instance, or null)
  instances, \* live.ts: the PubNub objects constructed so far
  listener   \* live.ts: the `_events` of the module's Listener

vars == <<req, nExec, returned, peer, out, lastSet, pubnub, instances, listener>>

-----------------------------------------------------------------------------
(* Bounds of the model *)

MaxDepth == 3
MaxExec == 2
MaxRefused == 1

\* The caller's descriptor; slot k + 1 is derived by the call on slot k.
Top == 0
Ids == Top .. MaxDepth

-----------------------------------------------------------------------------
(* Enumerations and values *)

HttpMethod == {"OPTIONS", "GET", "POST", "PATCH", "PUT", "DELETE"}

DataPolicy == {"LocalOnly", "CloudOnly", "LocalFirst", "CloudFirst"}

\* What the caller passes as a method (in any casing) and as a data policy
\* when it assigns them.
MethodInputs == {"get", "PUT"}

PolicyInputs == {"LocalOnly"}

\* String.prototype.toUpperCase on the strings the model uses.
toUpperCase(s) ==
  CASE s = "get" -> "GET"
    [] s = "put" -> "PUT"
    [] s = "delete" -> "DELETE"
    [] s = "Put" -> "PUT"
    [] s = "patch" -> "PATCH"
    [] s = "foo" -> "FOO"
    [] OTHER -> s

\* String.prototype.toLowerCase on the header names the model uses.
toLowerCase(s) ==
  CASE s = "Authorization" -> "authorization"
    [] s = "Accept" -> "accept"
    [] s = "Content-Type" -> "content-type"
    [] s = "X-Kinvey-Api-Version" -> "x-kinvey-api-version"
    [] s = "ACCEPT" -> "accept"
    [] s = "CONTENT-TYPE" -> "content-type"
    [] s = "X-KINVEY-API-VERSION" -> "x-kinvey-api-version"
    [] s = "X-Foo" -> "x-foo"
    [] s = "X-FOO" -> "x-foo"
    [] OTHER -> s

\* The auth strategies: no auth, a credential object, a resolver function.
AuthKinds == {"undefined", "static", "function"}

\* Payloads a layer may answer with.
Data == {"d1"}

\* Request shapes the caller constructs: path, query and body.
Shapes ==
  { [path |-> "/a", query |-> "q1", body |-> "d1"],
    [path |-> "/b", query |-> "undefined", body |-> "undefined"] }

\* JavaScript values that flow through the promises.  `layer` and `to` stand
\* for the identity of a Response object: which layer produced it, for which
\* descriptor.
Undefined ==
  [kind |-> "undefined", ok |-> FALSE, data |-> "undefined",
   layer |-> "none", to |-> Top]

Response(layer, i, ok, d) ==
  [kind |-> "response", ok |-> ok, data |-> d, layer |-> layer, to |-> i]

Error(e, i) ==
  [kind |-> "error", ok |-> FALSE, data |-> e, layer |-> "none", to |-> i]

\* A promise's state.
NotStarted == [st |-> "none", val |-> Undefined]
Pending == [st |-> "pending", val |-> Undefined]
Fulfilled(v) == [st |-> "fulfilled", val |-> v]
Rejected(e) == [st |-> "rejected", val |-> e]

\* What a layer call or the auth resolver may settle to.
LayerResults(layer, i) ==
  { Fulfilled(Response(layer, i, ok, d)) : ok \in BOOLEAN, d \in Data }
    \cup { Fulfilled(Undefined), Rejected(Error(layer \o " rejected", i)) }

\* A resolved credential set, or null ("no credentials").
AuthInfo(scheme, credentials, username, password) ==
  [kind |-> "authInfo", scheme |-> scheme, credentials |-> credentials,
   username |-> username, password |-> password]

Null ==
  [kind |-> "null", scheme |-> "", credentials |-> "",
   username |-> "undefined", password |-> "undefined"]

StaticAuth == AuthInfo("Basic", "undefined", "user", "secret")

ResolvedAuth == AuthInfo("Kinvey", "token", "undefined", "undefined")

-----------------------------------------------------------------------------
(* The descriptor *)

EmptyHeaders == [k \in {} |-> ""]

\* Faulty variant: the key is stored as it was given.
setHeaderKeepsCase(headers, header, value) ==
  [k \in DOMAIN headers \cup {header} |->
     IF k = header THEN value ELSE headers[k]]

\* setHeader: the key is stored lower-cased.
setHeader(headers, header, value) ==
  [k \in DOMAIN headers \cup {toLowerCase(header)} |->
     IF k = toLowerCase(header) THEN value ELSE headers[k]]

\* addHeaders: setHeader for each entry, in the order of Object.keys.
RECURSIVE addHeaders(_, _)
addHeaders(headers, entries) ==
  IF entries = << >> THEN headers
  ELSE addHeaders(setHeader(headers, Head(entries)[1], Head(entries)[2]),
                  Tail(entries))

\* getHeader: the first stored key equal to the name up to case.
getHeader(headers, header) ==
  IF \E k \in DOMAIN headers : toLowerCase(k) = toLowerCase(header)
  THEN headers[CHOOSE k \in DOMAIN headers :
                 toLowerCase(k) = toLowerCase(header)]
  ELSE "undefined"

\* removeHeader: delete this.headers[header.toLowerCase()].
removeHeader(headers, header) ==
  [k \in DOMAIN headers \ {toLowerCase(header)} |-> headers[k]]

DefaultHeaders ==
  << <<"Accept", "application/json">>,
     <<"Content-Type", "application/json">>,
     <<"X-Kinvey-Api-Version", "KINVEY_API_VERSION">> >>

\* The set method(method) accessor: upper-cases, accepts the six methods.
ValidMethod(method) == toUpperCase(method) \in HttpMethod

\* The locals and closures of one execute() call.
\*   pc         where the call is suspended ("idle": no call is pending,
\*              and the other fields are those of the last call)
\*   dataPolicy, method   the constants read on entry
\*   auth       the constant read by executeCloud
\*   response   the primary layer's value, held by the policy callback
\*   sub        the reaction attached to the derived descriptor's promise
\*   promise    the state of `promise`, once settled
NoCall ==
  [pc |-> "idle", dataPolicy |-> "", method |-> "", auth |-> "",
   response |-> Undefined, sub |-> "none", promise |-> NotStarted]

\* What the call has done so far (history, read by no action).
\*   cache, net, authCalls   invocations of the two layers and of the resolver
\*   derived    descriptors this call constructed
\*   first      what the primary layer call settled to
\*   authInfo   what the resolver function settled to
\*   thenMethod this.method as the policy callback read it
\*   outcome    what the promise execute() returned settled to
NoLog ==
  [cache |-> 0, net |-> 0, authCalls |-> 0, derived |-> 0,
   first |-> NotStarted, authInfo |-> NotStarted, thenMethod |-> "",
   outcome |-> NotStarted]

\* A mapping (a plain object) is the sequence of its entries <<key, value>>
\* in the order of its keys.  Flags that are undefined are the empty
\* mapping: merge skips a source that is undefined.
NoFlags == << >>

\* The protocol and host of a client configuration.
apiProtocol(client) == "https:"

apiHost(client) == "baas.kinvey.com"

\* A slot that holds no descriptor.
Blank ==
  [used |-> FALSE, _method |-> "", headers |-> EmptyHeaders, path |-> "",
   query |-> "undefined", body |-> "undefined", client |-> "",
   auth |-> "undefined", dataPolicy |-> "", executing |-> FALSE,
   response |-> Undefined, origin |-> "none", call |-> NoCall, log |-> NoLog,
   protocol |-> "", host |-> "", flags |-> NoFlags]

\* new PrivateRequest(method, path, query, body, {client, auth, dataPolicy}).
PrivateRequest(method, path, query, body, client, auth, dataPolicy) ==
  [Blank EXCEPT !.used = TRUE,
                !._method = toUpperCase(method),
                !.headers = addHeaders(EmptyHeaders, DefaultHeaders),
                !.path = path, !.query = query, !.body = body,
                !.client = client, !.auth = auth,
                !.dataPolicy = dataPolicy,
                !.protocol = apiProtocol(client), !.host = apiHost(client)]

-----------------------------------------------------------------------------
(* execute(): the synchronous part *)

\* Faulty variant: the entry guard never refuses.
GuardNeverRefuses(r) == FALSE

\* Faulty variant: the flag the guard reads is shared by the caller's
\* descriptors.
AlreadyExecutingShared(r) == r.executing \/ peer[Top].executing

\* The entry guard: if (this.executing).
AlreadyExecuting(r) == r.executing

AlreadyExecutingError(i) == Error("The request is already executing.", i)

\* executeLocal(): the Cache Layer is invoked at once.
executeLocal(r) ==
  [r EXCEPT !.call.pc = "cache", !.log.cache = @ + 1]

\* Faulty variant: the Network Layer is invoked at once, auth is not resolved.
executeCloudSkipsAuth(r) ==
  [r EXCEPT !.call.pc = "net", !.call.auth = r.auth, !.log.net = @ + 1]

\* executeCloud(), up to its first suspension: auth is read, the rest runs
\* in a reaction of Promise.resolve().
executeCloud(r) ==
  [r EXCEPT !.call.pc = "cloud", !.call.auth = r.auth]

\* What execute() throws when no branch of the dispatch assigned `promise`.
NoPromise == Error("TypeError: Cannot read property 'then' of undefined", Top)

\* The policy dispatch on the dataPolicy read on entry.  With a dataPolicy
\* that is none of the four, `promise` stays undefined and promise.then
\* throws out of execute(), after the flag was set.
Dispatch(r) ==
  CASE r.call.dataPolicy = "LocalOnly" -> executeLocal(r)
    [] r.call.dataPolicy = "LocalFirst" -> executeLocal(r)
    [] r.call.dataPolicy = "CloudOnly" -> executeCloud(r)
    [] r.call.dataPolicy = "CloudFirst" -> executeCloud(r)
    [] OTHER -> [r EXCEPT !.call.pc = "threw",
                          !.log.outcome = [st |-> "threw", val |-> NoPromise]]

\* execute() on descriptor r (slot i): refused by the guard, or the flag is
\* set, dataPolicy and method are read, and the policy's first layer starts.
execute(r, i) ==
  IF AlreadyExecuting(r)
  THEN [refused |-> TRUE, req |-> r,
        promise |-> Rejected(AlreadyExecutingError(i))]
  ELSE [refused |-> FALSE,
        req |-> Dispatch(
          [r EXCEPT !.executing = TRUE,
                    !.call = [NoCall EXCEPT !.dataPolicy = r.dataPolicy,
                                            !.method = r._method],
                    !.log = [NoLog EXCEPT !.outcome = Pending]]),
        promise |-> Pending]

-----------------------------------------------------------------------------
(* The policy callbacks *)

\* response && response.isSuccess()
IsSuccess(response) == response.kind = "response" /\ response.ok

\* What a policy callback does with the primary layer's value.
Return(value) == [kind |-> "return", value |-> value, derived |-> Blank]
Throw(e) == [kind |-> "throw", value |-> e, derived |-> Blank]
Mirror(d) == [kind |-> "mirror", value |-> Undefined, derived |-> d]
Fallback(d) == [kind |-> "fallback", value |-> Undefined, derived |-> d]

\* new PrivateRequest(method, this.path, this.query, body,
\*                    {client: this.client, dataPolicy}); .auth = this.auth
Derive(r, method, body, dataPolicy, origin) ==
  [PrivateRequest(method, r.path, r.query, body, r.client, r.auth, dataPolicy)
     EXCEPT !.origin = origin]

\* response.data: a TypeError when response is undefined.
HasData(response) == response.kind # "undefined"

TypeError(i) == Error("TypeError: Cannot read property 'data' of undefined", i)

\* Faulty variant: a failed cache response falls back whatever the method.
LocalFirstThenFallsBack(r, i, response) ==
  IF IsSuccess(response)
  THEN IF r._method # "GET"
       THEN Mirror(Derive(r, r.call.method, response.data, "CloudOnly", "mirror"))
       ELSE Return(response)
  ELSE IF HasData(response)
       THEN Fallback(Derive(r, r.call.method, response.data, "CloudFirst",
                            "fallback"))
       ELSE Throw(TypeError(i))

\* Faulty variant: a successful cache response is mirrored whatever the method.
LocalFirstThenAlwaysMirrors(r, i, response) ==
  IF IsSuccess(response)
  THEN Mirror(Derive(r, r.call.method, response.data, "CloudOnly", "mirror"))
  ELSE IF r._method = "GET"
       THEN IF HasData(response)
            THEN Fallback(Derive(r, r.call.method, response.data, "CloudFirst",
                                 "fallback"))
            ELSE Throw(TypeError(i))
       ELSE Return(response)

\* Faulty variant: the fallback of a LocalFirst read is LocalFirst again.
LocalFirstThenRecurses(r, i, response) ==
  IF IsSuccess(response)
  THEN IF r._method # "GET"
       THEN Mirror(Derive(r, r.call.method, response.data, "CloudOnly", "mirror"))
       ELSE Return(response)
  ELSE IF r._method = "GET"
       THEN IF HasData(response)
            THEN Fallback(Derive(r, r.call.method, response.data, "LocalFirst",
                                 "fallback"))
            ELSE Throw(TypeError(i))
       ELSE Return(response)

\* The reaction to executeLocal() under LocalFirst.
LocalFirstThen(r, i, response) ==
  IF IsSuccess(response)
  THEN IF r._method # "GET"
       THEN Mirror(Derive(r, r.call.method, response.data, "CloudOnly", "mirror"))
       ELSE Return(response)
  ELSE IF r._method = "GET"
       THEN IF HasData(response)
            THEN Fallback(Derive(r, r.call.method, response.data, "CloudFirst",
                                 "fallback"))
            ELSE Throw(TypeError(i))
       ELSE Return(response)

\* Faulty variant: the cache mirror keeps the method of a read.
MirrorKeepsMethod(method) == method

\* The method of the cache mirror of a CloudFirst call.
MirrorMethod(method) == IF method = "GET" THEN "PUT" ELSE method

\* The reaction to executeCloud() under CloudFirst.
CloudFirstThen(r, i, response) ==
  IF IsSuccess(response)
  THEN Mirror(Derive(r, MirrorMethod(r.call.method), response.data,
                     "LocalOnly", "mirror"))
  ELSE IF r._method = "GET"
       THEN IF HasData(response)
            THEN Fallback(Derive(r, r.call.method, response.data, "LocalOnly",
                                 "fallback"))
            ELSE Throw(TypeError(i))
       ELSE Return(response)

\* Faulty variant: every policy attaches a policy callback.
EveryPolicyHasCallback(dataPolicy) == TRUE

\* The policies whose first layer call gets a policy callback.
HasPolicyCallback(dataPolicy) == dataPolicy \in {"LocalFirst", "CloudFirst"}

PolicyThen(r, i, response) ==
  IF r.call.dataPolicy = "LocalFirst"
  THEN LocalFirstThen(r, i, response)
  ELSE CloudFirstThen(r, i, response)

\* `promise` settles to p: the completion handlers are next.
Settle(r, p) ==
  [r EXCEPT !.call.pc = "settled", !.call.promise = p]

\* Faulty variant: the policy callback executes the derived descriptor but
\* does not return its promise, so `promise` settles to the primary value
\* while the derived descriptor is still executing.
AfterPrimaryNotAwaited(rq, i, p) ==
  LET r == [rq[i] EXCEPT !.log.first = p]
      d == PolicyThen(r, i, p.val)
      e == execute(d.derived, i + 1)
      t == [r EXCEPT !.log.thenMethod = r._method]
  IN IF ~HasPolicyCallback(r.call.dataPolicy) \/ p.st = "rejected"
     THEN [rq EXCEPT ![i] = Settle(r, p)]
     ELSE CASE d.kind = "return" ->
                 [rq EXCEPT ![i] = Settle(t, Fulfilled(d.value))]
            [] d.kind = "throw" ->
                 [rq EXCEPT ![i] = Settle(t, Rejected(d.value))]
            [] OTHER ->
                 [rq EXCEPT ![i] = Settle([t EXCEPT !.log.derived = @ + 1],
                                          Fulfilled(p.val)),
                            ![i + 1] = e.req]

\* The primary layer call of the descriptor in slot i settled to p: under
\* LocalOnly and CloudOnly that is `promise`; under LocalFirst and
\* CloudFirst a fulfilled value runs the policy callback, which may
\* construct a descriptor in slot i + 1 and execute it.
AfterPrimary(rq, i, p) ==
  LET r == [rq[i] EXCEPT !.log.first = p]
      d == PolicyThen(r, i, p.val)
      e == execute(d.derived, i + 1)
      t == [r EXCEPT !.log.thenMethod = r._method]
  IN IF ~HasPolicyCallback(r.call.dataPolicy) \/ p.st = "rejected"
     THEN [rq EXCEPT ![i] = Settle(r, p)]
     ELSE CASE d.kind = "return" ->
                 [rq EXCEPT ![i] = Settle(t, Fulfilled(d.value))]
            [] d.kind = "throw" ->
                 [rq EXCEPT ![i] = Settle(t, Rejected(d.value))]
            [] OTHER ->
                 IF e.refused
                 THEN [rq EXCEPT ![i] = Settle([t EXCEPT !.log.derived = @ + 1],
                                               e.promise),
                                 ![i + 1] = e.req]
                 ELSE [rq EXCEPT ![i] = [t EXCEPT !.call.pc = "sub",
                                                  !.call.sub = d.kind,
                                                  !.call.response = p.val,
                                                  !.log.derived = @ + 1],
                                 ![i + 1] = e.req]

\* Whether the callback of slot i would construct a descriptor.
Derives(rq, i, p) ==
  /\ HasPolicyCallback(rq[i].call.dataPolicy)
  /\ p.st = "fulfilled"
  /\ PolicyThen(rq[i], i, p.val).kind \in {"mirror", "fallback"}

-----------------------------------------------------------------------------
(* executeCloud(): auth resolution, then the Network Layer *)

isDefined(auth) == auth # "undefined"

isFunction(auth) == auth = "function"

\* new Buffer(`${username}:${password}`).toString('base64')
Base64(username, password) == "base64(" \o username \o ":" \o password \o ")"

\* The reaction to the resolved auth: the Authorization header, unless the
\* auth info is null.
AddAuthorization(r, authInfo) ==
  IF authInfo.kind # "null"
  THEN LET credentials ==
             IF authInfo.username # "undefined"
             THEN Base64(authInfo.username, authInfo.password)
             ELSE authInfo.credentials
       IN [r EXCEPT !.headers =
             setHeader(r.headers, "Authorization",
                       authInfo.scheme \o " " \o credentials)]
  ELSE r

\* rack.execute(this) on the network rack.
InvokeNetwork(r) == [r EXCEPT !.call.pc = "net", !.log.net = @ + 1]

\* The reaction to the resolved auth has run.  When it set the header, the
\* reaction that invokes the Network Layer is still queued; with a null auth
\* info it changed nothing and that reaction is the next change of state.
Authorized(r, authInfo) ==
  IF authInfo.kind # "null"
  THEN [AddAuthorization(r, authInfo) EXCEPT !.call.pc = "authorized"]
  ELSE InvokeNetwork(r)

\* What a resolver function may settle to.
AuthResults(i) ==
  { Fulfilled(ResolvedAuth), Fulfilled(Null),
    Rejected(Error("auth rejected", i)) }

-----------------------------------------------------------------------------
(* Completion *)

\* Faulty variant: the mirror's own value is returned.
SubResultOfMirror(r, q) == q

\* Faulty variant: whatever the mirror settles to, rejections included, is
\* replaced by the primary response.
SubResultHidesRejection(r, q) ==
  IF r.call.sub = "mirror" THEN Fulfilled(r.call.response) ELSE q

\* The reaction attached to the derived descriptor's promise q: a mirror's
\* value is replaced by the primary response, a fallback's promise is
\* returned as it is; a rejection passes through both.
SubResult(r, q) ==
  IF r.call.sub = "mirror" /\ q.st = "fulfilled"
  THEN Fulfilled(r.call.response)
  ELSE q

\* promise.then(...): the response is saved and the flag cleared.
OnFulfilled(r, response) ==
  [r EXCEPT !.response = response, !.executing = FALSE,
            !.call.pc = "idle", !.log.outcome = Fulfilled(response)]

\* Faulty variant: the catch handler throws again without clearing the flag.
OnRejectedKeepsFlag(r, err) ==
  [r EXCEPT !.call.pc = "idle", !.log.outcome = Rejected(err)]

\* Faulty variant: the catch handler clears the flag and does not throw
\* again, so the promise execute() returned fulfils with undefined.
OnRejectedSwallows(r, err) ==
  [r EXCEPT !.executing = FALSE,
            !.call.pc = "idle", !.log.outcome = Fulfilled(Undefined)]

\* Faulty variant: the catch handler also resets the response field.
OnRejectedClearsResponse(r, err) ==
  [r EXCEPT !.executing = FALSE, !.response = Undefined,
            !.call.pc = "idle", !.log.outcome = Rejected(err)]

\* .catch(...): the flag is cleared and the error thrown again.
OnRejected(r, err) ==
  [r EXCEPT !.executing = FALSE,
            !.call.pc = "idle", !.log.outcome = Rejected(err)]

-----------------------------------------------------------------------------
(* Actions *)

\* No accessor has been called.
NoOut == [kind |-> "none", value |-> ""]

\* live.ts as its module body leaves it: `pubnub` holds no instance and
\* the Listener has no events.
NoInstance == 0

NoEvents == [e \in {} |-> << >>]

Init ==
  /\ req = [i \in Ids |-> Blank]
  /\ nExec = 0
  /\ returned = << >>
  /\ peer = [i \in Ids |-> Blank]
  /\ out = NoOut
  /\ lastSet = EmptyHeaders
  /\ pubnub = NoInstance
  /\ instances = << >>
  /\ listener = NoEvents

\* The caller constructs its descriptor.
Construct(method, shape, auth, dataPolicy) ==
  /\ ~req[Top].used
  /\ ValidMethod(method)
  /\ req' = [req EXCEPT ![Top] =
       PrivateRequest(method, shape.path, shape.query, shape.body,
                      "sharedInstance", auth, dataPolicy)]
  /\ UNCHANGED <<nExec, returned, peer, out, lastSet, pubnub, instances, listener>>

\* The caller calls execute() and the entry guard refuses it.
ExecuteRefused ==
  /\ req[Top].used
  /\ execute(req[Top], Top).refused
  /\ Len(returned) < MaxRefused
  /\ returned' = Append(returned, execute(req[Top], Top).promise)
  /\ req' = [req EXCEPT ![Top] = execute(req[Top], Top).req]
  /\ UNCHANGED <<nExec, peer, out, lastSet, pubnub, instances, listener>>

\* The caller calls execute() and the call starts.  The descriptors the
\* previous call derived are gone.
ExecuteStart ==
  /\ req[Top].used
  /\ ~execute(req[Top], Top).refused
  /\ nExec < MaxExec
  /\ nExec' = nExec + 1
  /\ req' = [i \in Ids |->
               IF i = Top THEN execute(req[Top], Top).req ELSE Blank]
  /\ UNCHANGED <<returned, peer, out, lastSet, pubnub, instances, listener>>

\* Request.method = method, through the facade.
SetMethod(method) ==
  /\ req[Top].used
  /\ ValidMethod(method)
  /\ req[Top]._method # toUpperCase(method)
  /\ req' = [req EXCEPT ![Top]._method = toUpperCase(method)]
  /\ UNCHANGED <<nExec, returned, peer, out, lastSet, pubnub, instances, listener>>

\* Request.dataPolicy = dataPolicy, through the facade.
SetDataPolicy(dataPolicy) ==
  /\ req[Top].used
  /\ req[Top].dataPolicy # dataPolicy
  /\ req' = [req EXCEPT ![Top].dataPolicy = dataPolicy]
  /\ UNCHANGED <<nExec, returned, peer, out, lastSet, pubnub, instances, listener>>

\* The auth values the caller assigns after construction.
AuthInputs == {"static"}

\* Request.auth = auth, through the facade.
SetAuth(auth) ==
  /\ req[Top].used
  /\ req[Top].auth # auth
  /\ req' = [req EXCEPT ![Top].auth = auth]
  /\ UNCHANGED <<nExec, returned, peer, out, lastSet, pubnub, instances, listener>>

\* The first reactions of executeCloud(): without auth the Network Layer is
\* called; a credential object is resolved and the Authorization header
\* set; a resolver function is invoked and awaited, or throws.
CloudStart(i, throws) ==
  /\ req[i].call.pc = "cloud"
  /\ LET r == req[i]
         auth == r.call.auth
     IN IF isDefined(auth)
        THEN IF isFunction(auth)
             THEN IF throws
                  THEN req' = AfterPrimary(
                         [req EXCEPT ![i].log.authCalls = @ + 1,
                                     ![i].log.authInfo =
                                        Rejected(Error("auth threw", i))],
                         i, Rejected(Error("auth threw", i)))
                  ELSE req' = [req EXCEPT ![i].call.pc = "auth",
                                          ![i].log.authCalls = @ + 1,
                                          ![i].log.authInfo = Pending]
             ELSE /\ ~throws
                  /\ req' = [req EXCEPT ![i] = Authorized(r, StaticAuth)]
        ELSE /\ ~throws
             /\ req' = [req EXCEPT ![i] = InvokeNetwork(r)]
  /\ UNCHANGED <<nExec, returned, peer, out, lastSet, pubnub, instances, listener>>

\* The resolver function's promise settles.
AuthSettle(i, a) ==
  /\ req[i].call.pc = "auth"
  /\ a \in AuthResults(i)
  /\ LET r == [req[i] EXCEPT !.log.authInfo = a]
     IN IF a.st = "fulfilled"
        THEN req' = [req EXCEPT ![i] = Authorized(r, a.val)]
        ELSE req' = AfterPrimary([req EXCEPT ![i] = r], i, a)
  /\ UNCHANGED <<nExec, returned, peer, out, lastSet, pubnub, instances, listener>>

\* The last reaction of executeCloud(), queued behind the one that set the
\* Authorization header: the Network Layer is invoked.
NetStart(i) ==
  /\ req[i].call.pc = "authorized"
  /\ req' = [req EXCEPT ![i] = InvokeNetwork(req[i])]
  /\ UNCHANGED <<nExec, returned, peer, out, lastSet, pubnub, instances, listener>>

\* The Network Layer call settles.
NetSettle(i, p) ==
  /\ req[i].call.pc = "net"
  /\ p \in LayerResults("net", i)
  /\ Derives(req, i, p) => i < MaxDepth
  /\ req' = AfterPrimary(req, i, p)
  /\ UNCHANGED <<nExec, returned, peer, out, lastSet, pubnub, instances, listener>>

\* The Cache Layer call settles.
CacheSettle(i, p) ==
  /\ req[i].call.pc = "cache"
  /\ p \in LayerResults("cache", i)
  /\ Derives(req, i, p) => i < MaxDepth
  /\ req' = AfterPrimary(req, i, p)
  /\ UNCHANGED <<nExec, returned, peer, out, lastSet, pubnub, instances, listener>>

\* The derived descriptor's execute() has settled: the reaction attached to
\* it settles `promise`.
SubSettle(i) ==
  /\ req[i].call.pc = "sub"
  /\ i < MaxDepth
  /\ req[i + 1].call.pc = "idle"
  /\ req[i + 1].log.outcome.st \in {"fulfilled", "rejected"}
  /\ req' = [req EXCEPT ![i] =
       Settle(req[i], SubResult(req[i], req[i + 1].log.outcome))]
  /\ UNCHANGED <<nExec, returned, peer, out, lastSet, pubnub, instances, listener>>

\* The completion handlers of execute().
Finish(i) ==
  /\ req[i].call.pc = "settled"
  /\ req' = [req EXCEPT ![i] =
       IF req[i].call.promise.st = "fulfilled"
       THEN OnFulfilled(req[i], req[i].call.promise.val)
       ELSE OnRejected(req[i], req[i].call.promise.val)]
  /\ UNCHANGED <<nExec, returned, peer, out, lastSet, pubnub, instances, listener>>

Next ==
  \/ \E m \in MethodInputs, s \in Shapes, a \in AuthKinds, d \in DataPolicy :
       Construct(m, s, a, d)
  \/ ExecuteRefused
  \/ ExecuteStart
  \/ \E m \in MethodInputs : SetMethod(m)
  \/ \E d \in PolicyInputs : SetDataPolicy(d)
  \/ \E a \in AuthInputs : SetAuth(a)
  \/ \E i \in Ids, t \in BOOLEAN : CloudStart(i, t)
  \/ \E i \in Ids : \E a \in AuthResults(i) : AuthSettle(i, a)
  \/ \E i \in Ids : NetStart(i)
  \/ \E i \in Ids : \E p \in LayerResults("net", i) : NetSettle(i, p)
  \/ \E i \in Ids : \E p \in LayerResults("cache", i) : CacheSettle(i, p)
  \/ \E i \in Ids : SubSettle(i)
  \/ \E i \in Ids : Finish(i)

Spec == Init /\ [][Next]_vars

\* The steps the program takes by itself once execute() has been called:
\* the reactions the microtask queue holds are run, and the Cache Layer,
\* the Network Layer and the resolver complete the calls made to them.
Progress ==
  \/ \E i \in Ids, t \in BOOLEAN : CloudStart(i, t)
  \/ \E i \in Ids : \E a \in AuthResults(i) : AuthSettle(i, a)
  \/ \E i \in Ids : NetStart(i)
  \/ \E i \in Ids : \E p \in LayerResults("net", i) : NetSettle(i, p)
  \/ \E i \in Ids : \E p \in LayerResults("cache", i) : CacheSettle(i, p)
  \/ \E i \in Ids : SubSettle(i)
  \/ \E i \in Ids : Finish(i)

\* The caller constructs its descriptor, calls execute() on it when it is
\* idle, and assigns method and dataPolicy at any moment.
NextFair ==
  \/ \E m \in MethodInputs, s \in Shapes, a \in AuthKinds, d \in DataPolicy :
       Construct(m, s, a, d)
  \/ ExecuteStart
  \/ \E m \in MethodInputs : SetMethod(m)
  \/ \E d \in PolicyInputs : SetDataPolicy(d)
  \/ \E a \in AuthInputs : SetAuth(a)
  \/ Progress

\* The program with every layer call and resolver call completing and every
\* queued reaction run.
FairSpec == Init /\ [][NextFair]_vars /\ WF_vars(Progress)

-----------------------------------------------------------------------------
(* Two descriptors of one caller *)

\* What the caller constructs its two descriptors with: the same path.
PairShape == [path |-> "/a", query |-> "q1", body |-> "d1"]

PairPolicies == {"LocalOnly", "CloudFirst"}

\* The caller turns to its other descriptor: `req` holds the slots of the
\* descriptor the next step belongs to, `peer` those of the other one, so
\* the steps of the two interleave in every order.
Switch ==
  /\ req # peer
  /\ req' = peer
  /\ peer' = req
  /\ UNCHANGED <<nExec, returned, out, lastSet, pubnub, instances, listener>>

NextPair ==
  \/ \E d \in PairPolicies : Construct("get", PairShape, "function", d)
  \/ Switch
  \/ \E a \in AuthInputs : SetAuth(a)
  \/ ExecuteRefused
  \/ ExecuteStart
  \/ \E i \in Ids, t \in BOOLEAN : CloudStart(i, t)
  \/ \E i \in Ids : \E a \in AuthResults(i) : AuthSettle(i, a)
  \/ \E i \in Ids : NetStart(i)
  \/ \E i \in Ids : \E p \in LayerResults("net", i) : NetSettle(i, p)
  \/ \E i \in Ids : \E p \in LayerResults("cache", i) : CacheSettle(i, p)
  \/ \E i \in Ids : SubSettle(i)
  \/ \E i \in Ids : Finish(i)

SpecPair == Init /\ [][NextPair]_vars

-----------------------------------------------------------------------------
(* The dataPolicy option and accessor *)

\* What the caller passes as options.dataPolicy or assigns: a policy, no
\* such option, undefined, a string that is no policy.
AnyPolicyInputs == {"LocalOnly", "<absent>", "undefined", "Bogus"}

\* assign({..., dataPolicy: DataPolicy.CloudFirst}, options).dataPolicy: the
\* default only when options has no such key.
optionsDataPolicy(dataPolicy) ==
  IF dataPolicy = "<absent>" THEN "CloudFirst" ELSE dataPolicy

\* new Request('GET', '/a', query, 'd1', {auth, dataPolicy})
NewWithPolicy(dataPolicy) ==
  /\ ~req[Top].used
  /\ req' = [req EXCEPT ![Top] =
       PrivateRequest("GET", "/a", "q1", "d1", "sharedInstance", "function",
                      optionsDataPolicy(dataPolicy))]
  /\ UNCHANGED <<nExec, returned, peer, out, lastSet, pubnub, instances, listener>>

NextPolicy ==
  \/ \E d \in AnyPolicyInputs : NewWithPolicy(d)
  \/ \E d \in AnyPolicyInputs \ {"<absent>"} : SetDataPolicy(d)
  \/ \E a \in AuthInputs : SetAuth(a)
  \/ ExecuteRefused
  \/ ExecuteStart
  \/ \E i \in Ids, t \in BOOLEAN : CloudStart(i, t)
  \/ \E i \in Ids : \E a \in AuthResults(i) : AuthSettle(i, a)
  \/ \E i \in Ids : NetStart(i)
  \/ \E i \in Ids : \E p \in LayerResults("net", i) : NetSettle(i, p)
  \/ \E i \in Ids : \E p \in LayerResults("cache", i) : CacheSettle(i, p)
  \/ \E i \in Ids : SubSettle(i)
  \/ \E i \in Ids : Finish(i)

SpecPolicy == Init /\ [][NextPolicy]_vars

-----------------------------------------------------------------------------
(* The method accessor *)

\* JavaScript values that are no strings, as the caller may pass them.
NonStrings == {"<undefined>", "<42>"}

isString(v) == v \notin NonStrings

\* What the caller assigns as a method: valid methods in several casings,
\* strings that are no method, values that are no strings.
AnyMethodInputs ==
  {"get", "Put", "patch", "DELETE", "FOO", "foo", ""} \cup NonStrings

NotAString == "Invalid Http Method. It must be a string."

NotAMethod ==
  "Invalid Http Method. OPTIONS, GET, POST, PATCH, PUT, and DELETE are allowed."

\* Faulty variant: the upper-cased string is stored before it is checked.
setMethodStoresFirst(r, method) ==
  IF ~isString(method)
  THEN [threw |-> TRUE, error |-> NotAString, req |-> r]
  ELSE IF toUpperCase(method) \in HttpMethod
       THEN [threw |-> FALSE, error |-> "",
             req |-> [r EXCEPT !._method = toUpperCase(method)]]
       ELSE [threw |-> TRUE, error |-> NotAMethod,
             req |-> [r EXCEPT !._method = toUpperCase(method)]]

\* set method(method) on descriptor r: throws, or stores the upper-cased
\* method.
setMethod(r, method) ==
  IF ~isString(method)
  THEN [threw |-> TRUE, error |-> NotAString, req |-> r]
  ELSE IF toUpperCase(method) \in HttpMethod
       THEN [threw |-> FALSE, error |-> "",
             req |-> [r EXCEPT !._method = toUpperCase(method)]]
       ELSE [threw |-> TRUE, error |-> NotAMethod, req |-> r]

\* What an assignment that threw, or that returned, leaves in `out`.
Threw(error) == [kind |-> "threw", value |-> error]
Assigned(value) == [kind |-> "assigned", value |-> value]

\* new Request(method, "/a", undefined, "d1", {dataPolicy: LocalOnly}): an
\* undefined method is GET; the constructor assigns the method first, and
\* throws what the assignment throws.
NewRequest(method) ==
  /\ ~req[Top].used
  /\ LET m == IF method = "<undefined>" THEN "GET" ELSE method
         a == setMethod(Blank, m)
     IN IF a.threw
        THEN /\ out' = Threw(a.error)
             /\ req' = req
        ELSE /\ out' = NoOut
             /\ req' = [req EXCEPT ![Top] =
                  PrivateRequest(m, "/a", "undefined", "d1",
                                 "sharedInstance", "undefined", "LocalOnly")]
  /\ UNCHANGED <<nExec, returned, peer, lastSet, pubnub, instances, listener>>

\* request.method = method, on a descriptor that may be executing.
AssignMethod(method) ==
  /\ req[Top].used
  /\ LET a == setMethod(req[Top], method)
     IN /\ req' = [req EXCEPT ![Top] = a.req]
        /\ out' = IF a.threw THEN Threw(a.error) ELSE Assigned(method)
  /\ UNCHANGED <<nExec, returned, peer, lastSet, pubnub, instances, listener>>

NextMethod ==
  \/ \E m \in AnyMethodInputs : NewRequest(m)
  \/ \E m \in AnyMethodInputs : AssignMethod(m)
  \/ \E a \in AuthInputs : SetAuth(a)
  \/ ExecuteStart
  \/ \E p \in LayerResults("cache", Top) : CacheSettle(Top, p)
  \/ Finish(Top)

SpecMethod == Init /\ [][NextMethod]_vars

-----------------------------------------------------------------------------
(* The header store *)

\* Header names, in the casings the caller uses, and header values.
HeaderNames ==
  {"X-Foo", "x-foo", "X-FOO", "Accept", "ACCEPT", "Content-Type",
   "content-type", "X-Kinvey-Api-Version", "X-KINVEY-API-VERSION"}

HeaderValues == {"a", "b"}

\* The objects the caller passes to addHeaders: two entries whose keys
\* differ (they may be equal up to case), in the order of Object.keys.
HeaderObjects ==
  { e \in { << <<h1, v1>>, <<h2, v2>> >> :
              h1 \in HeaderNames, h2 \in HeaderNames,
              v1 \in HeaderValues, v2 \in HeaderValues } :
      e[1][1] # e[2][1] }

\* The names that are one header: they are equal up to case.
NameClasses ==
  { {"X-Foo", "x-foo", "X-FOO"},
    {"Accept", "ACCEPT", "accept"},
    {"Content-Type", "content-type", "CONTENT-TYPE"},
    {"X-Kinvey-Api-Version", "X-KINVEY-API-VERSION", "x-kinvey-api-version"} }

ClassOf(header) == CHOOSE c \in NameClasses : header \in c

\* The history of the store: the value last set for each header.
Remember(last, header, value) ==
  [c \in DOMAIN last \cup {ClassOf(header)} |->
     IF c = ClassOf(header) THEN value ELSE last[c]]

RECURSIVE RememberAll(_, _)
RememberAll(last, entries) ==
  IF entries = << >> THEN last
  ELSE RememberAll(Remember(last, Head(entries)[1], Head(entries)[2]),
                   Tail(entries))

Forget(last, header) ==
  [c \in DOMAIN last \ {ClassOf(header)} |-> last[c]]

\* A descriptor as its constructor leaves it, with the default headers.
InitHeaders ==
  /\ req = [i \in Ids |->
       IF i = Top
       THEN PrivateRequest("GET", "/a", "undefined", "undefined",
                           "sharedInstance", "undefined", "CloudFirst")
       ELSE Blank]
  /\ nExec = 0
  /\ returned = << >>
  /\ peer = [i \in Ids |-> Blank]
  /\ out = NoOut
  /\ lastSet = RememberAll(EmptyHeaders, DefaultHeaders)
  /\ pubnub = NoInstance
  /\ instances = << >>
  /\ listener = NoEvents

\* request.setHeader(header, value)
SetHeader(header, value) ==
  /\ req' = [req EXCEPT ![Top].headers = setHeader(@, header, value)]
  /\ lastSet' = Remember(lastSet, header, value)
  /\ UNCHANGED <<nExec, returned, peer, out, pubnub, instances, listener>>

\* request.addHeaders(headers)
AddHeaders(entries) ==
  /\ req' = [req EXCEPT ![Top].headers = addHeaders(@, entries)]
  /\ lastSet' = RememberAll(lastSet, entries)
  /\ UNCHANGED <<nExec, returned, peer, out, pubnub, instances, listener>>

\* request.removeHeader(header)
RemoveHeader(header) ==
  /\ req' = [req EXCEPT ![Top].headers = removeHeader(@, header)]
  /\ lastSet' = Forget(lastSet, header)
  /\ UNCHANGED <<nExec, returned, peer, out, pubnub, instances, listener>>

NextHeaders ==
  \/ \E h \in HeaderNames, v \in HeaderValues : SetHeader(h, v)
  \/ \E e \in HeaderObjects : AddHeaders(e)
  \/ \E h \in HeaderNames : RemoveHeader(h)

SpecHeaders == InitHeaders /\ [][NextHeaders]_vars

-----------------------------------------------------------------------------
(* The url accessor *)

\* The queries the caller uses and what their toJSON() returns; a query
\* that is undefined has none.
QueryInputs == {"undefined", "q0", "q1", "q2"}

toJSON(query) ==
  CASE query = "q0" -> << >>
    [] query = "q1" -> << <<"limit", "1">>, <<"sort", "x">> >>
    [] query = "q2" -> << <<"sort", "y">> >>

\* result(query, 'toJSON', {})
result(query) == IF query = "undefined" THEN << >> ELSE toJSON(query)

\* The flags the caller uses.
FlagInputs ==
  { NoFlags,
    << <<"limit", "9">> >>,
    << <<"sort", "z">>, <<"t", "0">> >>,
    << <<"t", "0">>, <<"limit", "9">> >> }

PathInputs == {"/a", "/b"}

ProtocolInputs == {"https:", "http:"}

HostInputs == {"baas.kinvey.com", "localhost"}

Keys(object) == {object[n][1] : n \in DOMAIN object}

\* object[key] = value: an existing key keeps its place.
assignKey(object, key, value) ==
  IF key \in Keys(object)
  THEN [n \in DOMAIN object |->
          IF object[n][1] = key THEN <<key, value>> ELSE object[n]]
  ELSE Append(object, <<key, value>>)

\* Faulty variant: a key the object already has keeps its value.
mergeKeepsFirst(object, source) ==
  object \o SelectSeq(source, LAMBDA e : e[1] \notin Keys(object))

\* merge(object, source) for values that are no objects: every entry of
\* the source is assigned.
RECURSIVE merge(_, _)
merge(object, source) ==
  IF source = << >> THEN object
  ELSE merge(assignKey(object, Head(source)[1], Head(source)[2]),
             Tail(source))

\* querystring.stringify, for keys and values that need no escaping.
RECURSIVE stringify(_)
stringify(object) ==
  IF object = << >> THEN ""
  ELSE Head(object)[1] \o "=" \o Head(object)[2]
         \o (IF Tail(object) = << >> THEN ""
             ELSE "&" \o stringify(Tail(object)))

\* url.format({protocol, host, pathname, query, hash}) with no hash.
format(protocol, host, pathname, query) ==
  protocol \o "//" \o host \o pathname
    \o (IF query = << >> THEN "" ELSE "?" \o stringify(query))

\* get url()
url(r) ==
  format(r.protocol, r.host, r.path,
         merge(merge(<< >>, r.flags), result(r.query)))

\* What reading url leaves in `out`.
Url(value) == [kind |-> "url", value |-> value]

\* The setters of the facade for the fields url reads, and for the body.
SetFlags(flags) ==
  /\ req' = [req EXCEPT ![Top].flags = flags]
  /\ UNCHANGED <<nExec, returned, peer, out, lastSet, pubnub, instances, listener>>

SetQuery(query) ==
  /\ req' = [req EXCEPT ![Top].query = query]
  /\ UNCHANGED <<nExec, returned, peer, out, lastSet, pubnub, instances, listener>>

SetPath(path) ==
  /\ req' = [req EXCEPT ![Top].path = path]
  /\ UNCHANGED <<nExec, returned, peer, out, lastSet, pubnub, instances, listener>>

SetProtocol(protocol) ==
  /\ req' = [req EXCEPT ![Top].protocol = protocol]
  /\ UNCHANGED <<nExec, returned, peer, out, lastSet, pubnub, instances, listener>>

SetHost(host) ==
  /\ req' = [req EXCEPT ![Top].host = host]
  /\ UNCHANGED <<nExec, returned, peer, out, lastSet, pubnub, instances, listener>>

SetBody(body) ==
  /\ req' = [req EXCEPT ![Top].body = body]
  /\ UNCHANGED <<nExec, returned, peer, out, lastSet, pubnub, instances, listener>>

\* The caller reads request.url.
ReadUrl ==
  /\ out' = Url(url(req[Top]))
  /\ UNCHANGED <<req, nExec, returned, peer, lastSet, pubnub, instances, listener>>

NextUrl ==
  \/ \E f \in FlagInputs : SetFlags(f)
  \/ \E q \in QueryInputs : SetQuery(q)
  \/ \E p \in PathInputs : SetPath(p)
  \/ \E p \in ProtocolInputs : SetProtocol(p)
  \/ \E h \in HostInputs : SetHost(h)
  \/ \E b \in Data \cup {"undefined"} : SetBody(b)
  \/ ReadUrl

\* The descriptor starts as its constructor leaves it.
SpecUrl == InitHeaders /\ [][NextUrl]_vars

-----------------------------------------------------------------------------
(* Properties *)

\* The execute() call on slot i has completed.
Done(i) == req[i].log.outcome.st \in {"fulfilled", "rejected"}

\* An execute() call has started on slot i (and may have completed).
Called(i) == req[i].log.outcome.st # "none"

\* No descriptor was derived below slot i.
NoneBelow(i) == \A j \in Ids : j > i => ~req[j].used

\* C1: an execute() call made while a call on the same descriptor is pending
\* (whatever that call waits for) is refused with the "already executing"
\* error and changes nothing of the descriptor or of the pending call: no
\* layer and no resolver is invoked, flag, layer calls and outcome stay as
\* they are; a call starts only when the caller calls execute() on an idle
\* descriptor, so a refused call is never run later.
C1_SingleFlight ==
  [][ /\ req[Top].executing => nExec' = nExec
      /\ returned' # returned =>
           /\ req[Top].executing
           /\ req' = req
           /\ returned' =
                Append(returned, Rejected(AlreadyExecutingError(Top)))
      /\ (req[Top].call.pc = "idle" /\ req'[Top].call.pc # "idle") =>
           nExec' = nExec + 1 ]_vars

\* A call was refused while the pending call waits for a derived descriptor.
C1_Witness ==
  /\ Len(returned) > 0
  /\ req[Top].executing
  /\ req[Top].call.pc = "sub"
  /\ req[Top + 1].executing

\* C2: once an execute() call that passed the guard has completed, with a
\* Response or with a rejection, the executing flag is false and the guard
\* lets the next execute() pass.
C2_FlagCleared ==
  \A i \in Ids :
    Done(i) => ~req[i].executing /\ ~execute(req[i], i).refused

\* A second call was accepted on the descriptor and ended in a rejection.
C2_Witness ==
  /\ nExec = 2
  /\ req[Top].log.outcome.st = "rejected"
  /\ ~req[Top].executing

\* this.method was m when execute() read it and when the policy callback
\* read it.
MethodIs(i, m) == req[i].call.method = m /\ req[i].log.thenMethod = m

\* this.method was no GET when execute() read it nor when the policy
\* callback read it.
MethodIsWrite(i) ==
  req[i].call.method # "GET" /\ req[i].log.thenMethod # "GET"

\* The primary layer answered with a successful Response.
FirstSucceeded(i) ==
  req[i].log.first.st = "fulfilled" /\ IsSuccess(req[i].log.first.val)

\* The primary layer answered with a failed Response.
FirstFailed(i) ==
  /\ req[i].log.first.st = "fulfilled"
  /\ req[i].log.first.val.kind = "response"
  /\ ~req[i].log.first.val.ok

\* The primary layer answered with a failed Response or with none.
FirstFailedOrAbsent(i) ==
  req[i].log.first.st = "fulfilled" /\ ~IsSuccess(req[i].log.first.val)

\* The call on slot i constructed exactly one descriptor, with this policy,
\* method and body and with the path and query of slot i, and executed it.
DerivedIs(i, dataPolicy, method, body) ==
  /\ i < MaxDepth
  /\ req[i].log.derived = 1
  /\ req[i + 1].used
  /\ req[i + 1].dataPolicy = dataPolicy
  /\ req[i + 1]._method = method
  /\ req[i + 1].path = req[i].path
  /\ req[i + 1].query = req[i].query
  /\ req[i + 1].body = body
  /\ Done(i + 1)

\* The resolver of slot i threw or rejected.
AuthFailed(i) == req[i].log.authInfo.st = "rejected"

\* C3 as claimed: under LocalFirst, a write whose cache Response is a
\* success is mirrored by exactly one CloudOnly descriptor with the same
\* method, path and query and the cache data as body, the Network Layer is
\* invoked for it, and execute() resolves to the cache Response.
C3_Claimed ==
  \A i \in Ids :
    (/\ Done(i)
     /\ req[i].call.dataPolicy = "LocalFirst"
     /\ MethodIsWrite(i)
     /\ FirstSucceeded(i))
    => /\ DerivedIs(i, "CloudOnly", req[i].call.method,
                    req[i].log.first.val.data)
       /\ req[i + 1].log.net = 1
       /\ req[i].log.outcome = Fulfilled(req[i].log.first.val)

\* C3 as amended: the mirror descriptor is as claimed and is executed once,
\* on the network path only; when the mirror's execute() fulfils, with a
\* successful or a failed Response, the Network Layer was invoked once and
\* execute() resolves to the cache Response; when the mirror's execute()
\* rejects (its resolver or the Network Layer rejected), execute() rejects
\* with the mirror's error.
C3_WriteThrough ==
  \A i \in Ids :
    (/\ Done(i)
     /\ req[i].call.dataPolicy = "LocalFirst"
     /\ MethodIsWrite(i)
     /\ FirstSucceeded(i))
    => /\ DerivedIs(i, "CloudOnly", req[i].call.method,
                    req[i].log.first.val.data)
       /\ NoneBelow(i + 1)
       /\ req[i].log.cache = 1 /\ req[i].log.net = 0
       /\ req[i + 1].log.cache = 0 /\ req[i + 1].log.net <= 1
       /\ req[i + 1].log.net = 0 => AuthFailed(i + 1)
       /\ req[i + 1].log.outcome.st = "fulfilled" =>
            /\ req[i + 1].log.net = 1
            /\ req[i].log.outcome = Fulfilled(req[i].log.first.val)
       /\ req[i + 1].log.outcome.st = "rejected" =>
            req[i].log.outcome = req[i + 1].log.outcome

\* A LocalFirst write was mirrored, the mirror came back with a failed
\* Response, and the call resolved to the cache Response.
C3_Witness ==
  /\ Done(Top)
  /\ req[Top].call.dataPolicy = "LocalFirst"
  /\ MethodIsWrite(Top)
  /\ FirstSucceeded(Top)
  /\ req[Top + 1].log.net = 1
  /\ req[Top + 1].log.outcome.st = "fulfilled"
  /\ ~IsSuccess(req[Top + 1].log.outcome.val)
  /\ req[Top].log.outcome = Fulfilled(req[Top].log.first.val)

\* The method the cache mirror of a CloudFirst call is claimed to have.
ClaimedMirrorMethod(i) ==
  IF req[i].call.method = "GET" THEN "PUT" ELSE req[i].call.method

\* C4 as claimed: under CloudFirst, a successful network Response is
\* mirrored by exactly one LocalOnly descriptor with the same path and
\* query, the network data as body and method PUT for a GET (the original
\* method otherwise), the Cache Layer is invoked for it, and execute()
\* resolves to the network Response.
C4_Claimed ==
  \A i \in Ids :
    (/\ Done(i)
     /\ req[i].call.dataPolicy = "CloudFirst"
     /\ FirstSucceeded(i))
    => /\ DerivedIs(i, "LocalOnly", ClaimedMirrorMethod(i),
                    req[i].log.first.val.data)
       /\ req[i + 1].log.cache = 1
       /\ req[i].log.outcome = Fulfilled(req[i].log.first.val)

\* C4 as amended: the mirror descriptor is as claimed and is executed once,
\* against the Cache Layer only; when the mirror's execute() fulfils, with
\* a successful or a failed Response, execute() resolves to the network
\* Response; when it rejects (the Cache Layer rejected), execute() rejects
\* with the mirror's error.
C4_ReadThrough ==
  \A i \in Ids :
    (/\ Done(i)
     /\ req[i].call.dataPolicy = "CloudFirst"
     /\ FirstSucceeded(i))
    => /\ DerivedIs(i, "LocalOnly", ClaimedMirrorMethod(i),
                    req[i].log.first.val.data)
       /\ NoneBelow(i + 1)
       /\ req[i].log.net = 1 /\ req[i].log.cache = 0
       /\ req[i + 1].log.cache = 1 /\ req[i + 1].log.net = 0
       /\ req[i + 1].log.outcome.st = "fulfilled" =>
            req[i].log.outcome = Fulfilled(req[i].log.first.val)
       /\ req[i + 1].log.outcome.st = "rejected" =>
            req[i].log.outcome = req[i + 1].log.outcome

\* A CloudFirst GET succeeded on the network, was written to the cache with
\* PUT, and the call resolved to the network Response.
C4_Witness ==
  /\ Done(Top)
  /\ req[Top].call.dataPolicy = "CloudFirst"
  /\ req[Top].call.method = "GET"
  /\ FirstSucceeded(Top)
  /\ req[Top + 1]._method = "PUT"
  /\ req[Top + 1].log.outcome.st = "fulfilled"
  /\ req[Top].log.outcome = Fulfilled(req[Top].log.first.val)

\* C5 as claimed: under LocalFirst, a GET whose cache Response is a failure
\* or absent is handed to exactly one CloudFirst descriptor with the same
\* method, path, query and body as the original, the Network Layer is
\* invoked through it (unless its resolver fails first), and execute()
\* settles as that execution does.
C5_Claimed ==
  \A i \in Ids :
    (/\ Done(i)
     /\ req[i].call.dataPolicy = "LocalFirst"
     /\ MethodIs(i, "GET")
     /\ FirstFailedOrAbsent(i))
    => /\ DerivedIs(i, "CloudFirst", req[i].call.method, req[i].body)
       /\ req[i + 1].log.net = 1 \/ AuthFailed(i + 1)
       /\ req[i].log.outcome = req[i + 1].log.outcome

\* C6 as claimed: under CloudFirst, a GET whose network Response is a
\* failure is handed to exactly one LocalOnly descriptor with the same
\* method, path, query and body as the original, executed against the Cache
\* Layer, and execute() settles as that execution does.
C6_Claimed ==
  \A i \in Ids :
    (/\ Done(i)
     /\ req[i].call.dataPolicy = "CloudFirst"
     /\ MethodIs(i, "GET")
     /\ FirstFailed(i))
    => /\ DerivedIs(i, "LocalOnly", req[i].call.method, req[i].body)
       /\ req[i + 1].log.cache = 1
       /\ req[i].log.outcome = req[i + 1].log.outcome

\* C7: for a method that is no GET, a failed (or absent) primary Response
\* is the result of execute() and the other layer is never invoked: under
\* LocalFirst no descriptor is derived and neither the Network Layer nor
\* the resolver is invoked; under CloudFirst no descriptor is derived and
\* the Cache Layer is not invoked.
C7_NoSubstitution ==
  \A i \in Ids :
    (/\ Done(i)
     /\ MethodIsWrite(i)
     /\ FirstFailedOrAbsent(i))
    => /\ req[i].call.dataPolicy = "LocalFirst" =>
            /\ req[i].log.outcome = req[i].log.first
            /\ req[i].log.derived = 0 /\ NoneBelow(i)
            /\ req[i].log.net = 0 /\ req[i].log.authCalls = 0
       /\ req[i].call.dataPolicy = "CloudFirst" =>
            /\ req[i].log.outcome = req[i].log.first
            /\ req[i].log.derived = 0 /\ NoneBelow(i)
            /\ req[i].log.cache = 0

\* A LocalFirst write failed in the cache and that failure is the result.
C7_Witness ==
  /\ Done(Top)
  /\ req[Top].call.dataPolicy = "LocalFirst"
  /\ MethodIsWrite(Top)
  /\ FirstFailed(Top)
  /\ req[Top].log.outcome = req[Top].log.first

\* C8: under LocalOnly the Cache Layer is invoked once, the Network Layer
\* and the resolver never, no descriptor is derived, and execute() settles
\* to exactly what the Cache Layer call settled to.
C8_LocalOnly ==
  \A i \in Ids :
    (Called(i) /\ req[i].call.dataPolicy = "LocalOnly")
    => /\ req[i].log.cache = 1
       /\ req[i].log.net = 0
       /\ req[i].log.authCalls = 0
       /\ req[i].log.derived = 0 /\ NoneBelow(i)
       /\ Done(i) => /\ req[i].log.first.st # "none"
                     /\ req[i].log.outcome = req[i].log.first

\* A LocalOnly write with a resolver function as auth ended with the failed
\* Response of the cache.
C8_Witness ==
  /\ Done(Top)
  /\ req[Top].call.dataPolicy = "LocalOnly"
  /\ req[Top].auth = "function"
  /\ req[Top].call.method = "PUT"
  /\ FirstFailed(Top)
  /\ req[Top].log.outcome = req[Top].log.first

\* C9: under CloudOnly the Cache Layer is never invoked and no descriptor
\* is derived; a resolver function is invoked exactly once and has resolved
\* before the Network Layer is invoked; the Network Layer is invoked at
\* most once, and execute() settles to exactly what it settled to (to the
\* resolver's error when the resolver failed, the Network Layer then not
\* being invoked).
C9_CloudOnly ==
  \A i \in Ids :
    (Called(i) /\ req[i].call.dataPolicy = "CloudOnly")
    => /\ req[i].log.cache = 0
       /\ req[i].log.derived = 0 /\ NoneBelow(i)
       /\ req[i].log.net <= 1
       /\ isFunction(req[i].call.auth) =>
            /\ req[i].log.authCalls <= 1
            /\ req[i].log.net = 1 =>
                 /\ req[i].log.authCalls = 1
                 /\ req[i].log.authInfo.st = "fulfilled"
            /\ Done(i) => req[i].log.authCalls = 1
       /\ ~isFunction(req[i].call.auth) => req[i].log.authCalls = 0
       /\ (Done(i) /\ req[i].log.net = 1) =>
            /\ req[i].log.first.st # "none"
            /\ req[i].log.outcome = req[i].log.first
       /\ (Done(i) /\ req[i].log.net = 0) =>
            /\ AuthFailed(i)
            /\ req[i].log.outcome = req[i].log.authInfo

\* A CloudOnly call whose resolver function resolved ended with the failed
\* Response of the network.
C9_Witness ==
  /\ Done(Top)
  /\ req[Top].call.dataPolicy = "CloudOnly"
  /\ isFunction(req[Top].call.auth)
  /\ req[Top].log.authCalls = 1
  /\ req[Top].log.net = 1
  /\ FirstFailed(Top)
  /\ req[Top].log.outcome = req[Top].log.first

\* C10: under LocalFirst, a GET whose cache Response is a success resolves
\* to that Response; no descriptor is derived and neither the Network Layer
\* nor the resolver is invoked.
C10_CacheHit ==
  \A i \in Ids :
    (/\ Done(i)
     /\ req[i].call.dataPolicy = "LocalFirst"
     /\ MethodIs(i, "GET")
     /\ FirstSucceeded(i))
    => /\ req[i].log.outcome = Fulfilled(req[i].log.first.val)
       /\ req[i].log.derived = 0 /\ NoneBelow(i)
       /\ req[i].log.cache = 1
       /\ req[i].log.net = 0 /\ req[i].log.authCalls = 0

\* A LocalFirst GET was served from the cache.
C10_Witness ==
  /\ Done(Top)
  /\ req[Top].call.dataPolicy = "LocalFirst"
  /\ MethodIs(Top, "GET")
  /\ FirstSucceeded(Top)
  /\ req[Top].response = req[Top].log.first.val
  /\ req[Top].log.outcome = Fulfilled(req[Top].log.first.val)

-----------------------------------------------------------------------------
(* Ordering, failures, termination *)

\* A layer call of slot i has been made and has not settled.
Outstanding(i) == req[i].call.pc \in {"cache", "net"}

\* The descriptors derived, directly or not, by the call on slot i.
Below(i) == {j \in Ids : j > i /\ req[j].used}

\* Layer calls made by the call on slot i and by the descriptors below it.
RECURSIVE CallsFrom(_, _)
CallsFrom(i, layer) ==
  IF i > MaxDepth \/ ~req[i].used THEN 0
  ELSE req[i].log[layer] + CallsFrom(i + 1, layer)

\* C11: at most one layer call is outstanding at any moment; a derived
\* descriptor is executed only after the primary layer call of its parent
\* has completed, and while it executes the parent waits for it; when an
\* execute() call has completed, every descriptor derived under it has
\* completed, and when it has resolved, every one of them has invoked its
\* layer.
C11_Sequential ==
  /\ Cardinality({i \in Ids : Outstanding(i)}) <= 1
  /\ \A i \in Ids :
       /\ (i < MaxDepth /\ req[i + 1].used) =>
            /\ req[i].log.first.st = "fulfilled"
            /\ req[i].log.derived = 1
            /\ ~Outstanding(i)
            /\ ~Done(i + 1) => req[i].call.pc = "sub" /\ ~Done(i)
       /\ Done(i) =>
            \A j \in Below(i) :
              /\ Done(j)
              /\ req[j].call.pc = "idle"
              /\ req[i].log.outcome.st = "fulfilled" =>
                   req[j].log.cache + req[j].log.net = 1

\* A LocalFirst read missed the cache, went to the network through a
\* CloudFirst descriptor, was written back through a LocalOnly descriptor,
\* and the call resolved after all three layer calls.
C11_Witness ==
  /\ Done(Top)
  /\ req[Top].log.outcome.st = "fulfilled"
  /\ req[Top].call.dataPolicy = "LocalFirst"
  /\ req[Top + 1].used /\ req[Top + 1].dataPolicy = "CloudFirst"
  /\ req[Top + 2].used /\ req[Top + 2].dataPolicy = "LocalOnly"
  /\ req[Top + 2].origin = "mirror"
  /\ CallsFrom(Top, "cache") = 2
  /\ CallsFrom(Top, "net") = 1

\* The first call of slot i (its layer call, or the resolver before it)
\* ended in a failed Response or in a rejection.
FirstFailure(i) == req[i].log.first.st = "rejected" \/ FirstFailed(i)

\* The failure of slot i made its policy callback fall back.
TriggeredFallback(i) == req[i].call.sub = "fallback"

\* Slot i is a mirror whose failed Response was dropped: the call that
\* derived it resolved to its own successful primary Response.
MirrorFailureDropped(i) ==
  /\ i > Top
  /\ req[i].origin = "mirror"
  /\ FirstFailed(i)
  /\ IsSuccess(req[i - 1].log.first.val)
  /\ req[i - 1].log.outcome = Fulfilled(req[i - 1].log.first.val)

\* C12 as claimed: when the caller's execute() has completed, every failed
\* Response and every rejection a layer produced for the descriptor or for
\* a descriptor derived under it either made a policy callback fall back or
\* is, unchanged, what the caller's execute() settled to.
C12_Claimed ==
  \A i \in Ids :
    (Done(Top) /\ req[i].used /\ FirstFailure(i))
    => \/ TriggeredFallback(i)
       \/ req[Top].log.outcome = req[i].log.first

\* C12 as amended: every such failure either made a policy callback fall
\* back, or is, unchanged, what the caller's execute() settled to, or is
\* the failed Response of a mirror descriptor, which is dropped in favour
\* of the successful primary Response; a rejection is never dropped.
C12_Surfaced ==
  \A i \in Ids :
    (Done(Top) /\ req[i].used /\ FirstFailure(i))
    => \/ TriggeredFallback(i)
       \/ req[Top].log.outcome = req[i].log.first
       \/ MirrorFailureDropped(i)

\* The network mirror of a LocalFirst write rejected, and that rejection is
\* what the caller's execute() settled to.
C12_Witness ==
  /\ Done(Top)
  /\ req[Top].call.dataPolicy = "LocalFirst"
  /\ FirstSucceeded(Top)
  /\ req[Top + 1].origin = "mirror"
  /\ req[Top + 1].log.net = 1
  /\ req[Top + 1].log.first.st = "rejected"
  /\ req[Top].log.outcome = req[Top + 1].log.first

\* The chain of descriptors derived under the caller's call is at most
\* LocalFirst -> CloudFirst -> LocalOnly, no derived descriptor is
\* LocalFirst, and the chain makes at most two Cache Layer calls and one
\* Network Layer call.
ChainBounded ==
  /\ \A i \in Ids : i > Top + 2 => ~req[i].used
  /\ \A i \in Ids : (i > Top /\ req[i].used) => req[i].dataPolicy # "LocalFirst"
  /\ req[Top + 2].used =>
       /\ req[Top].call.dataPolicy = "LocalFirst"
       /\ req[Top + 1].dataPolicy = "CloudFirst"
       /\ req[Top + 2].dataPolicy = "LocalOnly"
  /\ CallsFrom(Top, "cache") <= 2
  /\ CallsFrom(Top, "net") <= 1

\* What execute() on slot i settled to changes only when a new call starts.
SettlesOnce ==
  \A i \in Ids :
    (Done(i) /\ req'[i].log.outcome # req[i].log.outcome)
    => req'[i].log.outcome.st \in {"none", "pending"}

\* C13: when every layer call and resolver call completes and every queued
\* reaction runs, every execute() call of the caller that passed the guard
\* completes, and no derived descriptor is executing once it has; a call
\* settles once, fulfilled or rejected; the chain of derived descriptors is
\* at most LocalFirst -> CloudFirst -> LocalOnly with no derived LocalFirst
\* descriptor, so one call of the caller makes at most two Cache Layer
\* calls and one Network Layer call.
C13_Terminates ==
  /\ []ChainBounded
  /\ [][SettlesOnce]_vars
  /\ [](~req[Top].executing => \A i \in Ids : ~req[i].executing)
  /\ req[Top].executing ~> ~req[Top].executing

\* A LocalFirst read fell back to the network and from there to the cache
\* again: two Cache Layer calls, one Network Layer call, and the call
\* completed with what the last descriptor settled to.
C13_Witness ==
  /\ Done(Top)
  /\ req[Top].call.dataPolicy = "LocalFirst"
  /\ req[Top + 1].origin = "fallback"
  /\ req[Top + 2].origin = "fallback"
  /\ CallsFrom(Top, "cache") = 2
  /\ CallsFrom(Top, "net") = 1
  /\ req[Top].log.outcome = req[Top + 2].log.outcome
  /\ \A i \in Ids : ~req[i].executing

\* C14: under CloudOnly and CloudFirst, when the resolver function throws
\* or rejects, it was invoked once, the Network Layer and the Cache Layer
\* are not invoked for the descriptor, no descriptor is derived, nothing is
\* pending any more, and execute() rejects with the resolver's error.
C14_AuthAborts ==
  \A i \in Ids :
    (/\ Called(i)
     /\ req[i].call.dataPolicy \in {"CloudOnly", "CloudFirst"}
     /\ AuthFailed(i))
    => /\ req[i].log.authCalls = 1
       /\ req[i].log.net = 0 /\ req[i].log.cache = 0
       /\ req[i].log.derived = 0 /\ NoneBelow(i)
       /\ req[i].call.pc \in {"settled", "idle"}
       /\ req[i].call.promise = req[i].log.authInfo
       /\ Done(i) => req[i].log.outcome = req[i].log.authInfo

\* A CloudFirst read whose resolver rejected ended with the resolver's
\* error, and the CloudFirst fallback of a LocalFirst read did likewise.
C14_Witness ==
  /\ Done(Top)
  /\ req[Top].call.dataPolicy = "LocalFirst"
  /\ req[Top + 1].call.dataPolicy = "CloudFirst"
  /\ req[Top + 1].call.method = "GET"
  /\ req[Top + 1].log.authInfo = Rejected(Error("auth rejected", Top + 1))
  /\ req[Top + 1].log.outcome = req[Top + 1].log.authInfo
  /\ req[Top].log.outcome = req[Top + 1].log.authInfo

-----------------------------------------------------------------------------
(* Two descriptors *)

\* The guard of the descriptor in slots rq lets execute() pass whenever
\* that descriptor is not executing.
GuardIsOwn(rq) ==
  (rq[Top].used /\ ~rq[Top].executing) => ~execute(rq[Top], Top).refused

\* No descriptor derived in slots rq was refused by the guard: each was
\* executed, and no call settled to the "already executing" error of a
\* derived descriptor.
DerivedNeverRefused(rq) ==
  \A i \in Ids :
    /\ (i > Top /\ rq[i].used) => rq[i].log.outcome.st # "none"
    /\ \A j \in Ids :
         j > Top => rq[i].log.outcome # Rejected(AlreadyExecutingError(j))

\* What a completed call in slots rq settled to follows from what its own
\* layer call and its own derived descriptor settled to, and the response
\* field holds what it resolved to.
OutcomeIsOwn(rq) ==
  \A i \in Ids :
    rq[i].log.outcome.st \in {"fulfilled", "rejected"} =>
      /\ ~rq[i].executing
      /\ IF rq[i].log.derived = 0
         THEN rq[i].log.outcome \in {rq[i].log.first, Rejected(TypeError(i))}
         ELSE /\ i < MaxDepth
              /\ rq[i].log.outcome = SubResult(rq[i], rq[i + 1].log.outcome)
      /\ rq[i].log.outcome.st = "fulfilled" =>
           rq[i].response = rq[i].log.outcome.val

\* C15: with two descriptors of the same path whose execute() calls
\* interleave in every order, a step of one leaves every field of the other
\* unchanged; execute() is refused only when the descriptor it is called on
\* is executing, whatever the other one does; derived descriptors are never
\* refused; flag, response field and outcome of each call follow from its
\* own descriptor and the results its own layer calls got.
C15_Isolation ==
  /\ [](\A rq \in {req, peer} :
          GuardIsOwn(rq) /\ DerivedNeverRefused(rq) /\ OutcomeIsOwn(rq))
  /\ [][ /\ peer' = peer \/ (peer' = req /\ req' = peer)
         /\ returned' # returned => req[Top].executing ]_vars

\* Both descriptors, of the same path, are executing at once, one of them
\* waiting for a descriptor it derived, and the caller was refused a second
\* execute() on one of them.
C15_Witness ==
  /\ nExec = 2
  /\ req[Top].path = peer[Top].path
  /\ req[Top].executing /\ peer[Top].executing
  /\ req[Top].call.pc = "sub" /\ req[Top + 1].executing
  /\ peer[Top].call.pc = "cache"
  /\ Len(returned) > 0

-----------------------------------------------------------------------------
(* The header store *)

\* The keys a store may hold: lower-case names.
LowerCaseNames ==
  {"x-foo", "accept", "content-type", "x-kinvey-api-version", "authorization"}

\* What the history says getHeader answers for a name.
LastValue(header) ==
  IF ClassOf(header) \in DOMAIN lastSet THEN lastSet[ClassOf(header)]
  ELSE "undefined"

\* C16: after any sequence of setHeader, addHeaders and removeHeader calls
\* every stored key is lower-case, and getHeader with any casing of a name
\* returns the value most recently set for that name (within one addHeaders
\* call the later entry), or undefined when the name was never set or was
\* removed since; removeHeader of a name that is absent changes nothing.
C16_CaseInsensitive ==
  /\ [](/\ DOMAIN req[Top].headers \subseteq LowerCaseNames
        /\ \A h \in HeaderNames :
             getHeader(req[Top].headers, h) = LastValue(h))
  /\ [][ \A h \in HeaderNames :
           (RemoveHeader(h) /\ getHeader(req[Top].headers, h) = "undefined")
           => req' = req ]_vars

\* X-Foo was set, in some casing, to b; Accept was removed; the default
\* Content-Type is still there.
C16_Witness ==
  /\ getHeader(req[Top].headers, "X-FOO") = "b"
  /\ getHeader(req[Top].headers, "x-foo") = "b"
  /\ LastValue("X-Foo") = "b"
  /\ getHeader(req[Top].headers, "ACCEPT") = "undefined"
  /\ getHeader(req[Top].headers, "content-type") = "application/json"
  /\ Cardinality(DOMAIN req[Top].headers) = 3

-----------------------------------------------------------------------------
(* The method accessor *)

\* The spellings of the six methods among the values the caller assigns,
\* each with the method it spells.
Spelling ==
  { <<"get", "GET">>, <<"Put", "PUT">>, <<"patch", "PATCH">>,
    <<"DELETE", "DELETE">> }

Spells(method) == \E sp \in Spelling : sp[1] = method

MethodSpelled(method) == (CHOOSE sp \in Spelling : sp[1] = method)[2]

\* C17: assigning a value that is no string, or a string that spells none
\* of the six methods, throws and changes nothing of the descriptor: the
\* stored method stays, no layer is invoked, a pending call is not
\* touched; assigning a spelling of a method in any casing does not throw
\* and stores the method in upper case, changing no other field.  The
\* stored method is always one of the six.
C17_MethodValidated ==
  /\ [](req[Top].used => req[Top]._method \in HttpMethod)
  /\ [][ \A m \in AnyMethodInputs :
           AssignMethod(m) =>
             IF Spells(m)
             THEN /\ out' = Assigned(m)
                  /\ req' = [req EXCEPT ![Top]._method = MethodSpelled(m)]
             ELSE /\ out'.kind = "threw"
                  /\ req' = req ]_vars

\* While a call on a PUT descriptor waits for the Cache Layer, assigning
\* FOO threw, and the descriptor is still a PUT descriptor.
C17_Witness ==
  /\ out = Threw(NotAMethod)
  /\ req[Top].used
  /\ req[Top]._method = "PUT"
  /\ req[Top].call.pc = "cache"
  /\ req[Top].call.method = "PUT"
  /\ req[Top].log.cache = 1

-----------------------------------------------------------------------------
(* The url accessor *)

\* The value a mapping has for one of its keys.
ValueOf(object, key) ==
  object[CHOOSE n \in DOMAIN object : object[n][1] = key][2]

\* The union of flags and serialized query as the claim describes it: an
\* entry of the flags has the query's value if the query has its key, and
\* the entries only the query has follow.
UnionQueryWins(flags, json) ==
  [n \in DOMAIN flags |->
     IF flags[n][1] \in Keys(json)
     THEN <<flags[n][1], ValueOf(json, flags[n][1])>>
     ELSE flags[n]]
    \o SelectSeq(json, LAMBDA e : e[1] \notin Keys(flags))

\* The serialized query as the claim describes it: empty for no query.
Serialized(query) == IF query = "undefined" THEN << >> ELSE toJSON(query)

\* C18: the query string of url is that of the union of the flags and the
\* serialized query, the query's value standing for every key both have,
\* the keys only one of them has being kept, no query counting as the
\* empty mapping; url is made of protocol, host, path, flags and query
\* and of nothing else of the descriptor; reading url returns it and
\* changes no field.
C18_UrlMerge ==
  /\ [](LET r == req[Top]
        IN /\ url(r) =
                format(r.protocol, r.host, r.path,
                       UnionQueryWins(r.flags, Serialized(r.query)))
           /\ url(r) =
                url([Blank EXCEPT !.protocol = r.protocol, !.host = r.host,
                                  !.path = r.path, !.flags = r.flags,
                                  !.query = r.query]))
  /\ [][ReadUrl => (out' = Url(url(req[Top])) /\ req' = req)]_vars

\* The caller read the url of a descriptor whose flags and query both
\* define limit, the flags alone t, the query alone sort.
C18_Witness ==
  /\ req[Top].flags = << <<"t", "0">>, <<"limit", "9">> >>
  /\ req[Top].query = "q1"
  /\ req[Top].body = "d1"
  /\ out = Url("http://localhost/b?t=0&limit=1&sort=x")

-----------------------------------------------------------------------------
(* The dataPolicy *)

\* C19 as claimed: every descriptor the constructor returned, and every
\* descriptor the setters lead to, has a client and a dataPolicy that is
\* one of the four, so every execute() that passes the guard dispatches to
\* one of the four branches.
C19_Claimed ==
  \A i \in Ids :
    req[i].used =>
      /\ req[i].client # ""
      /\ req[i].dataPolicy \in DataPolicy
      /\ Called(i) => /\ req[i].call.dataPolicy \in DataPolicy
                      /\ req[i].call.pc # "threw"

-----------------------------------------------------------------------------
(* The response field *)

\* The step is the one in which the call on slot i resolves.
Resolves(i) ==
  /\ req[i].call.pc = "settled"
  /\ req[i].call.promise.st = "fulfilled"
  /\ req'[i].log.outcome = req[i].call.promise

\* C20: once a call has resolved, the response field of its descriptor is
\* what the call resolved to: for a call that mirrored, the primary
\* Response and not what the mirror resolved to.  The response field of a
\* descriptor changes in no other step: a call that rejects and a call the
\* guard refuses leave it as it was before the call.
C20_ResponseField ==
  /\ [](\A i \in Ids :
          (Done(i) /\ req[i].log.outcome.st = "fulfilled") =>
            /\ req[i].response = req[i].log.outcome.val
            /\ req[i].call.sub = "mirror" =>
                 req[i].response = req[i].log.first.val)
  /\ [][ /\ \A i \in Ids :
              (req[i].used /\ req'[i].used
                 /\ req'[i].response # req[i].response)
              => /\ Resolves(i)
                 /\ req'[i].response = req[i].call.promise.val
         /\ returned' # returned => req'[Top].response = req[Top].response
       ]_vars

\* The first call on the descriptor resolved to a Response; the second was
\* rejected, and a call in between was refused: the response field still
\* holds the Response of the first call.
C20_Witness ==
  /\ nExec = 2
  /\ Len(returned) > 0
  /\ Done(Top)
  /\ req[Top].log.outcome.st = "rejected"
  /\ req[Top].response.kind = "response"

-----------------------------------------------------------------------------
(* Routing and assignments made while a call is pending *)

\* The descriptor of slot i with the method it had when its pending (or
\* last) execute() was entered.
AtEntry(i) == [req[i] EXCEPT !._method = req[i].call.method]

\* What the policy callback of slot i decides when the method it tests is
\* the one the descriptor had on entry.
RoutedAtEntry(i) == PolicyThen(AtEntry(i), i, req[i].log.first.val)

\* C21 as claimed: the choice the policy callback made between mirror,
\* fallback and pass-through, and the policy and method of the descriptor
\* it derived, are those that follow from the dataPolicy and method the
\* descriptor had when execute() was called, whatever the caller assigned
\* while the call was pending.
C21_Claimed ==
  \A i \in Ids :
    req[i].log.thenMethod # "" =>
      LET d == RoutedAtEntry(i)
          derives == d.kind \in {"mirror", "fallback"}
      IN /\ derives <=> req[i].log.derived = 1
         /\ (derives /\ i < MaxDepth) =>
              /\ req[i + 1].origin = d.kind
              /\ req[i + 1].dataPolicy = d.derived.dataPolicy
              /\ req[i + 1]._method = d.derived._method

-----------------------------------------------------------------------------
(* The live service: src/packages/js-sdk/src/live.ts *)

\* PubNub objects constructed, and listeners of one event, in a behaviour.
MaxInstances == 2
MaxHandlers == 2

STATUS_PREFIX == "status:"

UNCLASSIFIED_EVENTS == "pubNubEventsNotRouted"

\* A value as a property key or inside a template literal.
String(v) ==
  CASE v = "<undefined>" -> "undefined"
    [] v = "<42>" -> "42"
    [] OTHER -> v

\* `status:${channelName}`
statusEvent(channelName) == STATUS_PREFIX \o String(channelName)

\* Channel names callers pass: two names, one of them the word undefined,
\* the empty string, and no name at all.
ChannelInputs == {"a", "undefined", "", "<undefined>"}

\* The channels PubNub reports messages and statuses for.
ChannelNames == {"a", "undefined"}

isValidChannelName(channelName) == isString(channelName) /\ channelName # ""

\* A receiver is the set of its members that are functions; the empty set
\* is also the default of an omitted receiver.
ReceiverInputs == {{}, {"onMessage"}, {"onError", "onStatus"}}

isValidReceiver(receiver) ==
  "onMessage" \in receiver \/ "onError" \in receiver \/ "onStatus" \in receiver

\* EventEmitter: the listeners of an event, in the order they were added.
listeners(events, type) ==
  IF type \in DOMAIN events THEN events[type] ELSE << >>

\* EventEmitter.on(type, handler)
on(events, type, handler) ==
  [e \in DOMAIN events \cup {type} |->
     IF e = type THEN Append(listeners(events, type), handler) ELSE events[e]]

\* EventEmitter.removeAllListeners(type) called with one argument, which
\* may be undefined: the listeners of the event that argument names.
removeAllListeners(events, type) ==
  [e \in DOMAIN events \ {String(type)} |-> events[e]]

\* The configurations subscribe() is given.
ConfigInputs == {[userChannelGroup |-> "g1"], [userChannelGroup |-> "g2"]}

\* new PubNub(Object.assign({}, {ssl: true, dedupeOnSubscribe: true}, config))
PubNub(config) ==
  [config |-> [ssl |-> TRUE, dedupeOnSubscribe |-> TRUE,
               userChannelGroup |-> config.userChannelGroup],
   channelGroups |-> {}, listeners |-> {}, stopped |-> FALSE]

AlreadySubscribed ==
  "You are already subscribed to the live service. Please unsubscribe before you subscribe again."

\* What a call returned.
ReturnedValue(value) == [kind |-> "returned", value |-> value]

\* What the handlers invoked by an emit were.
Emitted(handlers) == [kind |-> "emitted", value |-> handlers]

\* subscribe(config)
Subscribe(config) ==
  /\ IF pubnub # NoInstance
     THEN /\ out' = Threw(AlreadySubscribed)
          /\ UNCHANGED <<pubnub, instances>>
     ELSE /\ Len(instances) < MaxInstances
          /\ instances' = Append(instances,
               [PubNub(config) EXCEPT
                  !.channelGroups = {config.userChannelGroup},
                  !.listeners = {"listener"}])
          /\ pubnub' = Len(instances) + 1
          /\ out' = ReturnedValue("undefined")
  /\ UNCHANGED <<req, nExec, returned, peer, lastSet, listener>>

\* The listeners subscribeToChannel() adds for a valid receiver.
addReceiver(events, channelName, receiver) ==
  LET m == IF "onMessage" \in receiver
           THEN on(events, channelName, "onMessage") ELSE events
      e == IF "onError" \in receiver
           THEN on(m, statusEvent(channelName), "onError") ELSE m
  IN IF "onStatus" \in receiver
     THEN on(e, statusEvent(channelName), "onStatus") ELSE e

\* subscribeToChannel(channelName, receiver)
SubscribeToChannel(channelName, receiver) ==
  /\ IF ~isValidChannelName(channelName)
     THEN /\ out' = Threw("Invalid channel name.")
          /\ listener' = listener
     ELSE IF ~isValidReceiver(receiver)
     THEN /\ out' = Threw("Invalid receiver.")
          /\ listener' = listener
     ELSE /\ \A e \in DOMAIN addReceiver(listener, channelName, receiver) :
               Len(addReceiver(listener, channelName, receiver)[e])
                 <= MaxHandlers
          /\ listener' = addReceiver(listener, channelName, receiver)
          /\ out' = ReturnedValue("true")
  /\ UNCHANGED <<req, nExec, returned, peer, lastSet, pubnub, instances>>

\* The body of unsubscribeFromChannel(channelName).
unsubscribeFromChannel(events, channelName) ==
  removeAllListeners(removeAllListeners(events, channelName),
                     statusEvent(channelName))

\* unsubscribeFromChannel(channelName)
UnsubscribeFromChannel(channelName) ==
  /\ listener' = unsubscribeFromChannel(listener, channelName)
  /\ out' = ReturnedValue("true")
  /\ UNCHANGED <<req, nExec, returned, peer, lastSet, pubnub, instances>>

\* unsubscribe(): unsubscribeFromChannel() without a channel name, then the
\* instance, if there is one, is detached, stopped and forgotten.
Unsubscribe ==
  /\ listener' = unsubscribeFromChannel(listener, "<undefined>")
  /\ IF pubnub # NoInstance
     THEN /\ instances' = [instances EXCEPT ![pubnub] =
               [@ EXCEPT !.listeners = @ \ {"listener"},
                         !.channelGroups = {},
                         !.stopped = TRUE]]
          /\ pubnub' = NoInstance
     ELSE UNCHANGED <<pubnub, instances>>
  /\ out' = ReturnedValue("true")
  /\ UNCHANGED <<req, nExec, returned, peer, lastSet>>

\* An instance that delivers its events to the Listener.
Delivers(i) == ~instances[i].stopped /\ "listener" \in instances[i].listeners

\* Listener.message(m): an instance reports a message on a channel.
Message(channel) ==
  /\ \E i \in 1 .. Len(instances) : Delivers(i)
  /\ out' = Emitted(listeners(listener, channel))
  /\ UNCHANGED <<req, nExec, returned, peer, lastSet, pubnub, instances,
                 listener>>

\* The callbacks a status event of a channel reaches: the wrapper of an
\* onError calls it for a status with an error, the wrapper of an onStatus
\* for a status without.
statusCallbacks(events, channel, error) ==
  SelectSeq(listeners(events, statusEvent(channel)),
            LAMBDA h : IF error THEN h = "onError" ELSE h = "onStatus")

\* The affected channels and channel groups of the statuses PubNub reports.
AffectedInputs == {<< >>, <<"a">>, <<"a", "undefined">>}

\* Listener.status(s): the status goes to every affected channel, or to the
\* unclassified event when there is none.
emitStatus(events, affected, error) ==
  IF Len(affected) > 0
  THEN IF Len(affected) = 1
       THEN statusCallbacks(events, affected[1], error)
       ELSE statusCallbacks(events, affected[1], error)
              \o statusCallbacks(events, affected[2], error)
  ELSE listeners(events, UNCLASSIFIED_EVENTS)

Status(affected, error) ==
  /\ \E i \in 1 .. Len(instances) : Delivers(i)
  /\ out' = Emitted(emitStatus(listener, affected, error))
  /\ UNCHANGED <<req, nExec, returned, peer, lastSet, pubnub, instances,
                 listener>>

NextLive ==
  \/ \E c \in ConfigInputs : Subscribe(c)
  \/ \E n \in ChannelInputs, r \in ReceiverInputs : SubscribeToChannel(n, r)
  \/ \E n \in ChannelInputs : UnsubscribeFromChannel(n)
  \/ Unsubscribe
  \/ \E n \in ChannelNames : Message(n)
  \/ \E a \in AffectedInputs, e \in BOOLEAN : Status(a, e)

SpecLive == Init /\ [][NextLive]_vars

-----------------------------------------------------------------------------
(* The single subscription of the live service *)

\* The PubNub objects that were constructed and not stopped.
Connections == {i \in 1 .. Len(instances) : ~instances[i].stopped}

\* The step is a call of subscribe(), of unsubscribe().
SubscribeCalled == \E c \in ConfigInputs : Subscribe(c)

UnsubscribeCalled == Unsubscribe

\* C22 as claimed: at most one PubNub connection exists at any time;
\* subscribe() while a connection exists throws and leaves the connection
\* and the listeners as they were; unsubscribe() leaves no channel listener
\* on the Listener, stops and clears the connection and returns true, also
\* when there is no connection; and subscribe() after it succeeds.
C22_Claimed ==
  /\ [](Cardinality(Connections) <= 1)
  /\ [][(SubscribeCalled /\ pubnub # NoInstance) =>
          /\ out'.kind = "threw"
          /\ pubnub' = pubnub /\ instances' = instances
          /\ listener' = listener]_vars
  /\ [][UnsubscribeCalled =>
          /\ DOMAIN listener' = {}
          /\ pubnub' = NoInstance
          /\ Connections' = {}
          /\ out' = ReturnedValue("true")]_vars
  /\ [][(SubscribeCalled /\ pubnub = NoInstance) =>
          /\ out' = ReturnedValue("undefined")
          /\ pubnub' \in Connections'
          /\ Delivers(pubnub)']_vars

=============================================================================
